---- MODULE Spec2Model ----
(***************************************************************************)
(* Dump dissection engine of bk7231tools (src/bk7231tools.py):             *)
(* dissect_dump_file, __carve_and_write_rbl_containers,                    *)
(* __scan_pattern_find_payload and __decrypt_code_partition.               *)
(*                                                                         *)
(* Bytes are integers 0..255, byte strings are sequences of bytes.  The    *)
(* modules bk7231tools.analysis (rbl, utils, flash) and                    *)
(* bk7231tools.crypto.code are not part of the source tree; the block      *)
(* checksum, the container locator/parser and the cipher are modelled from *)
(* the specification text and are marked as such where they are defined.   *)
(***************************************************************************)
EXTENDS Integers, Sequences, FiniteSets, TLC

VARIABLES
    layout,                 \* flash.FlashLayout.partitions: sequence of partitions
    dump,                   \* the bytes of the dump file
    images,                 \* how each partition window of the dump was built (input description)
    extract,                \* args.extract
    with_rbl,               \* args.rbl
    indices,                \* offsets produced by rbl.find_rbl_containers_indices
    attempted,              \* offsets at which a parse was attempted, in order
    containers,             \* the list `containers`
    missing_rbl_containers, \* the set iterated by dissect_dump_file
    pc,                     \* position in the program
    partition_name,         \* argument of __scan_pattern_find_payload
    data,                   \* the partition window read from the dump
    i,                      \* the scan index of __scan_pattern_find_payload
    payload,                \* the candidate payload region
    final_payload_data,     \* the recovered payload, None until the walk ends
    raised,                 \* the exception that left dissect_dump_file / the scan
    files,                  \* output artifacts: <<payload name, tag>> -> content
    out,                    \* console lines
    scanned,                \* partition names handed to the pattern scan, in order
    decrypt_calls           \* every cipher.decrypt call: payload name and address

vars == << layout, dump, images, extract, with_rbl, indices, attempted, containers,
           missing_rbl_containers, pc, partition_name, data, i, payload,
           final_payload_data, raised, files, out, scanned, decrypt_calls >>

(***************************************************************************)
(* Bounds of the model.                                                    *)
(***************************************************************************)
MaxUnits == 2       \* at most this many 32+2-byte units in a window
MaxPad == 33        \* 0..MaxPad bytes of 0xFF after the units
MaxTrail == 1       \* 0..MaxTrail non-erased bytes after the padding
MaxIndices == 2     \* at most this many offsets from the locator

(***************************************************************************)
(* Program constants.                                                      *)
(***************************************************************************)
ChunkLen == 16
BlockLen == 32
CrcLen == 2
ErasedByte == 255

None == "None"

(***************************************************************************)
(* Byte strings and Python slicing.                                        *)
(***************************************************************************)
Rep(b, n) == [k \in 1..n |-> b]

\* b"\xFF" * 16
ErasedChunk == Rep(ErasedByte, ChunkLen)

\* A slice bound as Python normalises it for a sequence of length n:
\* negative bounds count from the end, everything is clamped to 0..n.
PyBound(x, n) == IF x < 0 THEN (IF x + n < 0 THEN 0 ELSE x + n)
                          ELSE (IF x > n THEN n ELSE x)

\* s[a:b]
PySlice(s, a, b) ==
    LET lo == PyBound(a, Len(s))
        hi == PyBound(b, Len(s))
    IN  IF lo < hi THEN SubSeq(s, lo + 1, hi) ELSE << >>

\* fs.seek(pos); fs.read(n)  /  BytesIO.read(n) at position pos (pos >= 0)
ReadAt(s, pos, n) ==
    LET hi == IF pos + n > Len(s) THEN Len(s) ELSE pos + n
    IN  IF pos < hi THEN SubSeq(s, pos + 1, hi) ELSE << >>

(***************************************************************************)
(* Block checksum (utils.block_crc_check, not in the source tree).         *)
(* Modelled from the specification: a 16-bit checksum over the block,      *)
(* compared with the two checksum bytes.  The parameters are those of      *)
(* CRC-16 with polynomial 0x8005, initial value 0xFFFF, most significant   *)
(* bit first, stored big-endian.                                           *)
(***************************************************************************)
CrcInit == 65535

RECURSIVE Xor(_, _, _)
Xor(a, b, n) == IF n = 0 THEN 0
                ELSE ((a + b) % 2) + 2 * Xor(a \div 2, b \div 2, n - 1)

\* x with the bit of weight w inverted
FlipBit(x, w) == IF (x \div w) % 2 = 1 THEN x - w ELSE x + w

\* x XOR 0x8005
XorPoly(x) == FlipBit(FlipBit(FlipBit(x, 1), 4), 32768)

CrcShift(c) == IF c >= 32768 THEN XorPoly((2 * c) % 65536)
                             ELSE 2 * c

CrcByte(c, b) ==
    LET c0 == Xor(c \div 256, b, 8) * 256 + (c % 256)
    IN  CrcShift(CrcShift(CrcShift(CrcShift(
        CrcShift(CrcShift(CrcShift(CrcShift(c0))))))))

\* The register after the first k bytes of the block.  The register is a
\* 16-bit value at every step; the test evaluates it before the next step.
RECURSIVE CrcUpTo(_, _)
CrcUpTo(block, k) ==
    IF k = 0 THEN CrcInit
    ELSE LET prev == CrcUpTo(block, k - 1)
         IN  IF prev < 65536 THEN CrcByte(prev, block[k]) ELSE prev % 65536

Crc16(block) == CrcUpTo(block, Len(block))

CrcBytes(c) == << c \div 256, c % 256 >>

block_crc_check(block, crc_bytes) ==
    /\ Len(crc_bytes) = CrcLen
    /\ crc_bytes = CrcBytes(Crc16(block))

(***************************************************************************)
(* Cipher (BekenCodeCipher, not in the source tree).  The keystream is not *)
(* part of this development: a decrypted artifact is recorded as the       *)
(* payload that was padded and decrypted together with the address the     *)
(* cipher was given.                                                       *)
(***************************************************************************)
CipherDecrypt(padded_of, address) ==
    [decrypted_pad_of |-> padded_of, address |-> address]

\* As decrypt_code_partition, keyed with the partition's offset in the dump.
decrypt_at_file_offset(partition, bytes) ==
    CipherDecrypt(bytes, partition.start_address)

\* __decrypt_code_partition(partition, payload)
decrypt_code_partition(partition, bytes) ==
    CipherDecrypt(bytes, partition.mapped_address)

(***************************************************************************)
(* Inputs: partition windows built from 32+2-byte units, erased padding    *)
(* and trailing non-erased bytes; the layout places the windows one after  *)
(* the other in the dump.                                                  *)
(***************************************************************************)
UnitLen == BlockLen + CrcLen

UnitKinds == {"ff", "00"}

DataBlock(kind) == IF kind = "ff" THEN Rep(ErasedByte, BlockLen)
                                  ELSE Rep(0, BlockLen)

Units == [kind : UnitKinds, ok : BOOLEAN]

\* A unit: the data block and its checksum, or a checksum that is off by one.
UnitTable == { [unit  |-> u,
                bytes |-> LET d == DataBlock(u.kind)
                              c == Crc16(d)
                          IN  d \o CrcBytes(IF u.ok THEN c
                                                    ELSE (c + 1) % 65536)]
               : u \in Units }

UnitBytes(u) == (CHOOSE e \in UnitTable : e.unit = u).bytes

RECURSIVE UnitsBytes(_)
UnitsBytes(us) == IF us = << >> THEN << >>
                  ELSE UnitBytes(Head(us)) \o UnitsBytes(Tail(us))

RECURSIVE UnitsData(_)
UnitsData(us) == IF us = << >> THEN << >>
                 ELSE DataBlock(Head(us).kind) \o UnitsData(Tail(us))

ImageBytes(img) ==
    UnitsBytes(img.units) \o Rep(ErasedByte, img.pad) \o Rep(0, img.trail)

ImageLen(img) == Len(img.units) * UnitLen + img.pad + img.trail

UnitSeqs == UNION { [1..n -> Units] : n \in 0..MaxUnits }

Images == [units : UnitSeqs, pad : 0..MaxPad, trail : 0..MaxTrail]

PartitionNames == << "bootloader", "app" >>

RECURSIVE StartOf(_, _)
StartOf(imgs, k) == IF k = 1 THEN 0
                    ELSE StartOf(imgs, k - 1) + ImageLen(imgs[k - 1])

\* The flash layout of a dump made of the windows imgs, in order.
LayoutOf(imgs) ==
    [k \in 1..Len(imgs) |->
        [name           |-> PartitionNames[k],
         start_address  |-> StartOf(imgs, k),
         size           |-> ImageLen(imgs[k]),
         mapped_address |-> (StartOf(imgs, k) \div UnitLen) * BlockLen]]

RECURSIVE DumpOf(_)
DumpOf(imgs) == IF imgs = << >> THEN << >>
                ELSE ImageBytes(Head(imgs)) \o DumpOf(Tail(imgs))

(***************************************************************************)
(* __scan_pattern_find_payload                                             *)
(***************************************************************************)
LayoutNames == { layout[k].name : k \in DOMAIN layout }

\* list(filter(lambda p: p.name == partition_name, layout.partitions))[0]
PartitionByName(name) ==
    layout[CHOOSE k \in DOMAIN layout :
              /\ layout[k].name = name
              /\ \A j \in 1..(k - 1) : layout[j].name # name]

\* As FindEndMarker, stepping back a data block (32 bytes) at a time.
RECURSIVE FindEndMarkerByBlock(_, _)
FindEndMarkerByBlock(d, n) ==
    IF n > 0
    THEN IF PySlice(d, n - ChunkLen, n) = ErasedChunk
         THEN n
         ELSE FindEndMarkerByBlock(d, n - BlockLen)
    ELSE n

\* First loop: back from the end of the window to a chunk of 16 0xFF bytes.
RECURSIVE FindEndMarker(_, _)
FindEndMarker(d, n) ==
    IF n > 0
    THEN IF PySlice(d, n - ChunkLen, n) = ErasedChunk
         THEN n
         ELSE FindEndMarker(d, n - ChunkLen)
    ELSE n

\* Second loop: further back to a non-erased chunk preceded by an erased one.
RECURSIVE FindBoundary(_, _)
FindBoundary(d, n) ==
    IF n > 0
    THEN IF /\ PySlice(d, n - ChunkLen, n) # ErasedChunk
            /\ PySlice(d, n - 2 * ChunkLen, n - ChunkLen) = ErasedChunk
         THEN n - ChunkLen + CrcLen
         ELSE FindBoundary(d, n - ChunkLen)
    ELSE n

\* payload = data[:i]
CandidateRegion(d, n) == PySlice(d, 0, n)

\* As WalkBlocks, without the distinction of the first block: any failing
\* block ends the loop with what was validated so far.
RECURSIVE WalkBlocksNoFatal(_, _, _, _)
WalkBlocksNoFatal(region, pos, first, acc) ==
    LET block == ReadAt(region, pos, BlockLen)
        crc_bytes == ReadAt(region, pos + Len(block), CrcLen)
    IN  IF block = << >>
        THEN [ok |-> TRUE, bytes |-> acc]
        ELSE IF ~block_crc_check(block, crc_bytes)
             THEN [ok |-> TRUE, bytes |-> acc]
             ELSE WalkBlocksNoFatal(region, pos + Len(block) + Len(crc_bytes),
                                    FALSE, acc \o block)

\* The block loop over the candidate region: the validated data blocks, or
\* a failure when the first block does not validate.
RECURSIVE WalkBlocks(_, _, _, _)
WalkBlocks(region, pos, first, acc) ==
    LET block == ReadAt(region, pos, BlockLen)
        crc_bytes == ReadAt(region, pos + Len(block), CrcLen)
    IN  IF block = << >>
        THEN [ok |-> TRUE, bytes |-> acc]
        ELSE IF ~block_crc_check(block, crc_bytes)
             THEN IF first THEN [ok |-> FALSE, bytes |-> << >>]
                           ELSE [ok |-> TRUE, bytes |-> acc]
             ELSE WalkBlocks(region, pos + Len(block) + Len(crc_bytes),
                             FALSE, acc \o block)

\* As Raise, with the exception swallowed by the caller's loop.
RaiseSwallowed(kind) ==
    /\ raised' = raised
    /\ pc' = "scan_returned"

Raise(kind) ==
    /\ raised' = kind
    /\ pc' = "raised"

WriteFile(fs, path, content) ==
    [p \in DOMAIN fs \cup {path} |-> IF p = path THEN content ELSE fs[p]]

\* Lines 99-107: the name check, the read of the window, i = partition.size.
ScanEnter ==
    /\ pc = "scan"
    /\ IF partition_name \notin LayoutNames
       THEN /\ Raise("PartitionNotFound")
            /\ UNCHANGED << data, i, final_payload_data >>
       ELSE LET partition == PartitionByName(partition_name)
            IN  /\ data' = ReadAt(dump, partition.start_address, partition.size)
                /\ i' = partition.size
                /\ final_payload_data' = None
                /\ pc' = "locate_end"
                /\ UNCHANGED raised
    /\ UNCHANGED << layout, dump, images, extract, with_rbl, indices, attempted,
                    containers, missing_rbl_containers, partition_name,
                    payload, files, out, scanned, decrypt_calls >>

\* Lines 108-116.
ScanLocateEnd ==
    /\ pc = "locate_end"
    /\ i' = FindEndMarker(data, i)
    /\ IF i' <= 0
       THEN Raise("EndOfPartitionNotFound")
       ELSE pc' = "locate_boundary" /\ UNCHANGED raised
    /\ UNCHANGED << layout, dump, images, extract, with_rbl, indices, attempted,
                    containers, missing_rbl_containers, partition_name, data,
                    payload, final_payload_data, files, out, scanned,
                    decrypt_calls >>

\* Lines 120-127.
ScanLocateBoundary ==
    /\ pc = "locate_boundary"
    /\ i' = FindBoundary(data, i)
    /\ payload' = CandidateRegion(data, i')
    /\ pc' = "weird_dump_check"
    /\ UNCHANGED << layout, dump, images, extract, with_rbl, indices, attempted,
                    containers, missing_rbl_containers, partition_name, data,
                    final_payload_data, raised, files, out, scanned,
                    decrypt_calls >>

\* Lines 132-134: an empty candidate region is replaced by the whole window.
WholeWindowIfEmpty(region, partition) ==
    IF region = << >>
    THEN ReadAt(dump, partition.start_address, partition.size)
    ELSE region

ScanWeirdDumpCheck ==
    /\ pc = "weird_dump_check"
    /\ payload' = WholeWindowIfEmpty(payload, PartitionByName(partition_name))
    /\ pc' = "walk"
    /\ UNCHANGED << layout, dump, images, extract, with_rbl, indices, attempted,
                    containers, missing_rbl_containers, partition_name, data,
                    i, final_payload_data, raised, files, out, scanned,
                    decrypt_calls >>

\* Lines 136-154.
ScanWalk ==
    /\ pc = "walk"
    /\ LET r == WalkBlocks(payload, 0, TRUE, << >>)
       IN  IF r.ok
           THEN /\ final_payload_data' = r.bytes
                /\ pc' = "report"
                /\ UNCHANGED raised
           ELSE /\ Raise("ChecksumMismatch")
                /\ UNCHANGED final_payload_data
    /\ UNCHANGED << layout, dump, images, extract, with_rbl, indices, attempted,
                    containers, missing_rbl_containers, partition_name, data,
                    i, payload, files, out, scanned, decrypt_calls >>

\* Lines 156-172: the report line, the two artifacts, the return.
ScanReport ==
    /\ pc = "report"
    /\ LET partition == PartitionByName(partition_name)
           raw == << partition_name, "pattern_scan" >>
           dec == << partition_name, "pattern_scan_decrypted" >>
       IN  /\ out' = Append(out, [line |-> "NO RBL", name |-> partition.name,
                                  address |-> partition.start_address,
                                  size |-> Len(final_payload_data)])
           /\ IF extract
              THEN /\ files' = WriteFile(WriteFile(files, raw, final_payload_data),
                                   dec, decrypt_code_partition(partition,
                                                               final_payload_data))
                   /\ decrypt_calls' = Append(decrypt_calls,
                          [name |-> partition_name, path |-> "pattern_scan",
                           address |-> decrypt_code_partition(partition,
                                           final_payload_data).address])
              ELSE UNCHANGED << files, decrypt_calls >>
    /\ pc' = "scan_returned"
    /\ UNCHANGED << layout, dump, images, extract, with_rbl, indices, attempted,
                    containers, missing_rbl_containers, partition_name, data,
                    i, payload, final_payload_data, raised, scanned >>

(***************************************************************************)
(* The pattern scan on its own: one call, on a window drawn from Images    *)
(* that follows a fixed bootloader window, for a known or unknown name.    *)
(***************************************************************************)
LeadImage == [units |-> << [kind |-> "00", ok |-> TRUE] >>, pad |-> ChunkLen,
              trail |-> 0]

InitScan ==
    /\ \E img \in Images : images = << LeadImage, img >>
    /\ layout = LayoutOf(images)
    /\ dump = DumpOf(images)
    /\ extract = TRUE
    /\ with_rbl = FALSE
    /\ indices = << >>
    /\ attempted = << >>
    /\ containers = << >>
    /\ missing_rbl_containers = {}
    /\ pc = "scan"
    /\ partition_name \in {"app", "nosuch"}
    /\ data = << >>
    /\ i = 0
    /\ payload = << >>
    /\ final_payload_data = None
    /\ raised = None
    /\ files = << >>
    /\ out = << >>
    /\ scanned = << >>
    /\ decrypt_calls = << >>

NextScan ==
    \/ ScanEnter
    \/ ScanLocateEnd
    \/ ScanLocateBoundary
    \/ ScanWeirdDumpCheck
    \/ ScanWalk
    \/ ScanReport

SpecScan == InitScan /\ [][NextScan]_vars

(***************************************************************************)
(* Container locator and parser (rbl.find_rbl_containers_indices and       *)
(* rbl.Container.from_bytestream, not in the source tree), modelled from   *)
(* the specification: the locator yields ascending offsets; a parse either *)
(* fails with a ParseError (a ValueError) or yields a container whose      *)
(* payload is None or the bytes read at the offset.  Which of these        *)
(* happens at an offset is left open, and so is the name in the header.    *)
(***************************************************************************)
LocatorOffsets(n) == [k \in 1..n |-> k * ChunkLen]

HeaderNames == { PartitionNames[k] : k \in DOMAIN PartitionNames } \cup {"unknown"}

ParseOutcomes(idx) ==
    { [kind |-> "ParseError", reason |-> "invalid header"] }
    \cup
    { [kind |-> "Container",
       header |-> [name |-> n, version |-> "1.00", algo |-> "NONE"],
       payload |-> pl] :
         n \in HeaderNames, pl \in {None, ReadAt(dump, idx, ChunkLen)} }

\* container.write_to_bytestream(fsout, payload_only)
ContainerBytes(container, payload_only) ==
    IF payload_only THEN container.payload
    ELSE [header |-> container.header, payload |-> container.payload]

(***************************************************************************)
(* __carve_and_write_rbl_containers                                        *)
(***************************************************************************)
\* Lines 74-78: the partition handed to the cipher for a container.
ContainerPartition(name) ==
    IF name \in LayoutNames THEN PartitionByName(name) ELSE layout[1]

\* As OnParseError, without the except clause: the ValueError leaves the loop.
OnParseErrorUncaught(idx, e) ==
    /\ raised' = "ParseError"
    /\ pc' = "raised"
    /\ UNCHANGED << out, containers, files, decrypt_calls >>

\* Lines 67-68: a ValueError of the parse is printed, nothing else happens.
OnParseError(idx, e) ==
    /\ out' = Append(out, [line |-> "FAILED TO PARSE", offset |-> idx,
                           reason |-> e.reason])
    /\ pc' = "carve"
    /\ UNCHANGED << containers, files, decrypt_calls, raised >>

\* Lines 69-94: a parsed container is kept, reported and, when its payload
\* is not None and extraction is on, written raw and decrypted.
OnContainer(idx, container) ==
    /\ containers' = Append(containers, container)
    /\ pc' = "carve"
    /\ UNCHANGED raised
    /\ IF container.payload # None
       THEN LET name == container.header.name
                partition == ContainerPartition(name)
                raw == << name, container.header.version >>
                \* f"{container.header.version}_decrypted", the version being "1.00"
                dec == << name, "1.00_decrypted" >>
                plain == decrypt_code_partition(partition, container.payload)
            IN  /\ out' = Append(out, [line |-> "RBL", offset |-> idx,
                                       name |-> name,
                                       algo |-> container.header.algo,
                                       size |-> Len(container.payload)])
                /\ IF extract
                   THEN /\ files' = WriteFile(
                               WriteFile(files, raw,
                                         ContainerBytes(container, ~with_rbl)),
                               dec, plain)
                        /\ decrypt_calls' = Append(decrypt_calls,
                               [name |-> name, path |-> "container",
                                address |-> plain.address])
                   ELSE UNCHANGED << files, decrypt_calls >>
       ELSE /\ out' = Append(out, [line |-> "INVALID PAYLOAD", offset |-> idx,
                                   name |-> container.header.name])
            /\ UNCHANGED << files, decrypt_calls >>

\* One turn of the loop of lines 61-94, for the next offset of the locator.
CarveOffset ==
    /\ pc = "carve"
    /\ Len(attempted) < Len(indices)
    /\ LET idx == indices[Len(attempted) + 1]
       IN  /\ attempted' = Append(attempted, idx)
           /\ \E r \in ParseOutcomes(idx) :
                 IF r.kind = "ParseError"
                 THEN OnParseError(idx, r)
                 ELSE OnContainer(idx, [header |-> r.header,
                                        payload |-> r.payload])
    /\ UNCHANGED << layout, dump, images, extract, with_rbl, indices,
                    missing_rbl_containers, partition_name, data, i, payload,
                    final_payload_data, scanned >>

(***************************************************************************)
(* dissect_dump_file                                                       *)
(***************************************************************************)
\* As container_names, without the test of the payload.
container_names_any(cs) == { cs[k].header.name : k \in DOMAIN cs }

\* Line 191.
container_names(cs) ==
    { cs[k].header.name : k \in { j \in DOMAIN cs : cs[j].payload # None } }

\* Line 192.
MissingRblContainers(cs) == LayoutNames \ container_names(cs)

\* Lines 95 and 189-192: the carve returns, the uncovered names are computed.
CarveReturn ==
    /\ pc = "carve"
    /\ Len(attempted) = Len(indices)
    /\ missing_rbl_containers' = MissingRblContainers(containers)
    /\ pc' = "fallback"
    /\ UNCHANGED << layout, dump, images, extract, with_rbl, indices, attempted,
                    containers, partition_name, data, i, payload,
                    final_payload_data, raised, files, out, scanned,
                    decrypt_calls >>

\* Line 193: the names a turn of `for missing in missing_rbl_containers` may
\* take next.  The iteration order of a set of strings is not fixed.
NextMissing(remaining) == remaining

\* Lines 193-196: the notice, then the call of the pattern scan.
FallbackNext ==
    /\ pc \in {"fallback", "scan_returned"}
    /\ \E missing \in NextMissing(missing_rbl_containers) :
          /\ out' = Append(out, [line |-> "Missing RBL container",
                                 name |-> missing])
          /\ partition_name' = missing
          /\ scanned' = Append(scanned, missing)
          /\ missing_rbl_containers' = missing_rbl_containers \ {missing}
    /\ pc' = "scan"
    /\ UNCHANGED << layout, dump, images, extract, with_rbl, indices, attempted,
                    containers, data, i, payload, final_payload_data, raised,
                    files, decrypt_calls >>

\* The loop of line 193 is exhausted: dissect_dump_file returns.
DissectReturn ==
    /\ pc \in {"fallback", "scan_returned"}
    /\ missing_rbl_containers = {}
    /\ pc' = "done"
    /\ UNCHANGED << layout, dump, images, extract, with_rbl, indices, attempted,
                    containers, missing_rbl_containers, partition_name, data,
                    i, payload, final_payload_data, raised, files, out,
                    scanned, decrypt_calls >>

(***************************************************************************)
(* A dissection: a dump of two partition windows, each a complete unit     *)
(* with padding, a unit with a wrong checksum, or a unit without padding.  *)
(***************************************************************************)
BadCrcImage == [units |-> << [kind |-> "00", ok |-> FALSE] >>, pad |-> ChunkLen,
                trail |-> 0]

NoPadImage == [units |-> << [kind |-> "00", ok |-> TRUE] >>, pad |-> 0,
               trail |-> 0]

WindowChoices == { LeadImage, BadCrcImage, NoPadImage }

Init ==
    /\ images \in [DOMAIN PartitionNames -> WindowChoices]
    /\ layout = LayoutOf(images)
    /\ dump = DumpOf(images)
    /\ extract \in BOOLEAN
    /\ with_rbl \in BOOLEAN
    /\ \E n \in 0..MaxIndices : indices = LocatorOffsets(n)
    /\ attempted = << >>
    /\ containers = << >>
    /\ missing_rbl_containers = {}
    /\ pc = "carve"
    /\ partition_name = None
    /\ data = << >>
    /\ i = 0
    /\ payload = << >>
    /\ final_payload_data = None
    /\ raised = None
    /\ files = << >>
    /\ out = << >>
    /\ scanned = << >>
    /\ decrypt_calls = << >>

Next ==
    \/ CarveOffset
    \/ CarveReturn
    \/ FallbackNext
    \/ DissectReturn
    \/ ScanEnter
    \/ ScanLocateEnd
    \/ ScanLocateBoundary
    \/ ScanWeirdDumpCheck
    \/ ScanWalk
    \/ ScanReport

Spec == Init /\ [][Next]_vars

(***************************************************************************)
(* Properties.                                                             *)
(***************************************************************************)
ScanWindow == images[2]               \* the window the lone scan works on

ScanEnded == pc \in {"raised", "report", "scan_returned"}

Succeeded == pc \in {"report", "scan_returned"}

AllOk(us) == \A k \in DOMAIN us : us[k].ok

\* K >= 1 valid units followed only by erased padding
ValidImage(img) == Len(img.units) >= 1 /\ AllOk(img.units) /\ img.trail = 0

\* The ends n of the 16-byte chunks d[n-16:n], counted back from the end of
\* the window, that lie inside the window and are entirely 0xFF.
ErasedChunkEnds(d) ==
    { n \in ChunkLen..Len(d) :
         /\ (Len(d) - n) % ChunkLen = 0
         /\ \A j \in (n - ChunkLen + 1)..n : d[j] = ErasedByte }

\* The ends of all 16-byte chunks inside the window, counted back from its end.
ChunkEnds(d) == { n \in ChunkLen..Len(d) : (Len(d) - n) % ChunkLen = 0 }

Largest(S) == CHOOSE n \in S : \A m \in S : m <= n

\* C1: a window of K >= 1 valid units followed only by 0xFF padding is
\* recovered as exactly the K data blocks, whatever the data and the padding.
C1_AllUnitsRecovered ==
    (partition_name = "app" /\ ValidImage(ScanWindow) /\ ScanEnded)
        => /\ Succeeded
           /\ final_payload_data = UnitsData(ScanWindow.units)

\* The first 32+2-byte unit of a region validates.
FirstUnitValid(region) ==
    block_crc_check(ReadAt(region, 0, BlockLen), ReadAt(region, BlockLen, CrcLen))

WalkEnded ==
    \/ Succeeded
    \/ pc = "raised" /\ raised = "ChecksumMismatch"

FirstBad(us) ==
    IF AllOk(us) THEN 0
    ELSE CHOOSE n \in DOMAIN us : ~us[n].ok /\ \A m \in 1..(n - 1) : us[m].ok

\* C3: when unit n > 1 is the first unit with a wrong checksum, the scan
\* succeeds with exactly the data blocks of units 1..n-1.
C3_PartialResultUpToFirstBadUnit ==
    (partition_name = "app" /\ ScanWindow.trail = 0
       /\ FirstBad(ScanWindow.units) > 1 /\ ScanEnded)
        => /\ Succeeded
           /\ final_payload_data =
                 UnitsData(SubSeq(ScanWindow.units, 1,
                                  FirstBad(ScanWindow.units) - 1))

EndSearched ==
    /\ pc \in {"locate_boundary", "weird_dump_check", "walk", "report",
               "scan_returned", "raised"}
    /\ raised # "PartitionNotFound"

\* C6: EndOfPartitionNotFound is raised exactly when no 16-byte chunk of the
\* window, taken back from its end, is entirely 0xFF; otherwise the first
\* loop stops at the erased chunk closest to the end of the window.
C6_EndOfPartitionNotFoundIffNoErasedChunk ==
    EndSearched =>
        /\ (pc = "raised" /\ raised = "EndOfPartitionNotFound")
              <=> ErasedChunkEnds(data) = {}
        /\ pc = "locate_boundary" => i = Largest(ErasedChunkEnds(data))

C6_Witness ==
    /\ pc = "raised" /\ raised = "EndOfPartitionNotFound"
    /\ ScanWindow.pad = ChunkLen - 1
    /\ Len(ScanWindow.units) = 2

\* Below the end marker e there is a non-erased chunk of the window
\* immediately preceded by an erased chunk of the window.
HasTransition(d, e) ==
    \E n \in ChunkEnds(d) :
        /\ n <= e
        /\ n - ChunkLen \in ErasedChunkEnds(d)
        /\ n \notin ErasedChunkEnds(d)

\* C9: when the first loop found an erased chunk and the second loop finds
\* no transition, the candidate region is empty and the block loop runs
\* over the whole window.
C9_WholeWindowWhenNoTransition ==
    (pc \in {"weird_dump_check", "walk"}
       /\ ~HasTransition(data, Largest(ErasedChunkEnds(data))))
        => /\ pc = "weird_dump_check" => payload = << >>
           /\ pc = "walk" => payload = data

(***************************************************************************)
(* Properties of a dissection.                                             *)
(***************************************************************************)
Count(seq, x) == Cardinality({ k \in DOMAIN seq : seq[k] = x })

Covered(name) ==
    \E k \in DOMAIN containers :
        containers[k].header.name = name /\ containers[k].payload # None

\* C4: once the containers are carved, the pattern scan is called at most
\* once for a partition no container with a payload names, never for
\* another one, and exactly once for each such partition in a run that ends
\* without a fatal error.
C4_FallbackCoverage ==
    /\ \A k \in DOMAIN scanned : scanned[k] \in LayoutNames
    /\ \A p \in DOMAIN layout :
          /\ Covered(layout[p].name) /\ pc # "carve"
                => Count(scanned, layout[p].name) = 0
          /\ Count(scanned, layout[p].name) <= 1
          /\ (pc = "done" /\ ~Covered(layout[p].name))
                => Count(scanned, layout[p].name) = 1

C4_Witness ==
    /\ pc = "done"
    /\ scanned = << "app" >>
    /\ \E k \in DOMAIN containers :
          containers[k].header.name = "app" /\ containers[k].payload = None
    /\ Covered("bootloader")

CarveLineKinds == {"FAILED TO PARSE", "RBL", "INVALID PAYLOAD"}

IsCarveLine(l) == l.line \in CarveLineKinds

IsParsedLine(l) == l.line \in {"RBL", "INVALID PAYLOAD"}

CarveLines == SelectSeq(out, IsCarveLine)

C5_State ==
    /\ Len(attempted) <= Len(indices)
    /\ attempted = SubSeq(indices, 1, Len(attempted))
    /\ pc # "carve" => attempted = indices
    /\ raised # "ParseError"
    /\ [k \in DOMAIN CarveLines |-> CarveLines[k].offset] = attempted
    /\ Len(containers) = Len(SelectSeq(CarveLines, IsParsedLine))

C5_Step ==
    (Len(out') = Len(out) + 1 /\ out'[Len(out')].line = "FAILED TO PARSE")
        => /\ out'[Len(out')].offset = indices[Len(attempted) + 1]
           /\ out'[Len(out')].reason = "invalid header"
           /\ containers' = containers
           /\ files' = files
           /\ pc' = "carve"
           /\ raised' = None

\* C5: a parse is attempted at every offset of the locator, in its order; a
\* ParseError is printed with its offset and reason, adds no container,
\* writes no artifact, does not leave the loop and does not keep the later
\* offsets from being attempted.
C5_ParseErrorIsolated == [](C5_State) /\ [][C5_Step]_vars

C5_Witness ==
    /\ pc # "carve"
    /\ Len(indices) = 2
    /\ Len(CarveLines) = 2
    /\ CarveLines[1].line = "FAILED TO PARSE"
    /\ CarveLines[1].offset = indices[1]
    /\ CarveLines[2].line = "RBL"
    /\ CarveLines[2].offset = indices[2]

FatalKinds == {"EndOfPartitionNotFound", "ChecksumMismatch", "PartitionNotFound"}

Reported(name) ==
    \E k \in DOMAIN out : out[k].line = "NO RBL" /\ out[k].name = name

C7_State ==
    /\ raised # None <=> pc = "raised"
    /\ pc = "raised" =>
          /\ raised \in FatalKinds
          /\ \A f \in DOMAIN files : f[1] # partition_name
    /\ pc \in {"scan_returned", "done"} =>
          \A k \in DOMAIN scanned : Reported(scanned[k])

C7_Step ==
    /\ raised = None
    /\ raised' # None => files' = files

\* C7: a failing pattern scan ends the run with its error: nothing runs
\* after it, the partitions scanned before it were reported, no artifact
\* exists for the failing partition and the failing step leaves every
\* artifact written before it as it was.
C7_FatalErrorPropagates == [](C7_State) /\ [][C7_Step]_vars

C7_Witness ==
    /\ pc = "raised"
    /\ raised = "EndOfPartitionNotFound"
    /\ partition_name = "app"
    /\ << "bootloader", "pattern_scan" >> \in DOMAIN files
    /\ << "unknown", "1.00" >> \in DOMAIN files

\* C8 as stated: every decrypt call gets the mapped address of the layout
\* partition that has the name of the payload.
C8_AddressOfNamedPartition ==
    \A k \in DOMAIN decrypt_calls :
        \E p \in DOMAIN layout :
            /\ layout[p].name = decrypt_calls[k].name
            /\ decrypt_calls[k].address = layout[p].mapped_address

\* C8 as amended: every decrypt call gets the mapped address of the layout
\* partition that has the name of the payload when the layout has such a
\* partition, and that of the first partition of the layout otherwise; the
\* payload of a pattern scan always has the name of a layout partition.
C8_AddressOfNamedOrFirstPartition ==
    \A k \in DOMAIN decrypt_calls :
        LET c == decrypt_calls[k]
            named == { p \in DOMAIN layout : layout[p].name = c.name }
        IN  /\ named # {} =>
                 \A p \in named : c.address = layout[p].mapped_address
            /\ named = {} => c.address = layout[1].mapped_address
            /\ c.path = "pattern_scan" => named # {}

C8_Witness ==
    /\ Len(decrypt_calls) = 3
    /\ decrypt_calls[1].name = "unknown"
    /\ decrypt_calls[2].name = "app"
    /\ decrypt_calls[2].path = "container"
    /\ decrypt_calls[2].address # layout[1].mapped_address
    /\ decrypt_calls[3].name = "bootloader"
    /\ decrypt_calls[3].path = "pattern_scan"

PositionOf(name) == CHOOSE p \in DOMAIN layout : layout[p].name = name

\* C10: the pattern scan runs over the uncovered partitions in the order in
\* which the layout declares them.
C10_FallbackInLayoutOrder ==
    \A a, b \in DOMAIN scanned :
        a < b => PositionOf(scanned[a]) < PositionOf(scanned[b])

====
